---- MODULE Spec2Model ----
(***************************************************************************)
(* Red Scare solvers (Alternate, None, Few, Some, Many) on a mixed graph   *)
(* with red/black vertices.  An instance is (edges, s, t, red); every      *)
(* solver is a pure function of the instance, modelled as the code         *)
(* computes it (adjacency lists in edge order, FIFO queues, a priority     *)
(* queue, Kahn's algorithm).                                               *)
(***************************************************************************)
EXTENDS Integers, Sequences, FiniteSets, TLC

\* locals: the local variables of a solver whose loop is followed step by
\* step, or the outcome of a second run; NoLocals when neither is modelled.
VARIABLES edges, s, t, red, pc, result, locals

vars == <<edges, s, t, red, pc, result, locals>>

NoLocals == <<>>

\* Longest edge list of an instance.
MaxEdges == 3

\* Vertex identifiers.  The code uses strings; the integers stand for the
\* names "1", "2", "3", whose string order is the integer order.
Vertices == {1, 2, 3}

\* Edge descriptors: "u -- v" (Undirected) and "u -> v" (Directed).
\* "u -- v" and "v -- u" append the same entries to the same lists, so
\* only u <= v is enumerated for undirected edges.
EdgeDescriptors ==
    {<<u, "->", v>> : u \in Vertices, v \in Vertices}
    \cup {<<e[1], "--", e[2]>> : e \in {p \in Vertices \X Vertices : p[1] <= p[2]}}

\* The order in which edge lines are listed: by source, then target, a
\* directed edge before an undirected one with the same endpoints.
EdgeLeq(e, f) ==
    \/ e[1] < f[1]
    \/ e[1] = f[1] /\ e[3] < f[3]
    \/ e[1] = f[1] /\ e[3] = f[3] /\ (e[2] = f[2] \/ e[2] = "->")

\* Edge lists of at most n lines, repeated lines included, each listed in
\* the order EdgeLeq.  Vertex names range over every assignment, so a
\* graph occurs with its lines, and so its adjacency entries, in the
\* different orders its namings give.
RECURSIVE SortedListsUpTo(_)
SortedListsUpTo(n) ==
    IF n = 0 THEN {<<>>}
    ELSE LET shorter == SortedListsUpTo(n - 1)
             longest == {q \in shorter : Len(q) = n - 1}
         IN  shorter \cup
             {Append(p[1], p[2]) :
                  p \in {c \in longest \X EdgeDescriptors :
                             n = 1 \/ EdgeLeq(c[1][n - 1], c[2])}}

EdgeLists == SortedListsUpTo(MaxEdges)

\* A mutation of Cost: the test is inverted.
CostInverted(v, R) == IF v \in R THEN 0 ELSE 1

\* 1 if v is red else 0
Cost(v, R) == IF v \in R THEN 1 ELSE 0

(***************************************************************************)
(* GraphModel: adjacency lists in edge-list order.                         *)
(***************************************************************************)
\* A mutation of EdgeEntries: an undirected line is entered forwards only.
EdgeEntriesForwardOnly(e, u) == IF e[1] = u THEN <<e[3]>> ELSE <<>>

\* What one edge line appends to adj[u].
EdgeEntries(e, u) ==
    IF e[2] = "--"
    THEN (IF e[1] = u THEN <<e[3]>> ELSE <<>>) \o (IF e[3] = u THEN <<e[1]>> ELSE <<>>)
    ELSE (IF e[1] = u THEN <<e[3]>> ELSE <<>>)

RECURSIVE AdjOf(_, _, _)
AdjOf(es, u, i) ==
    IF i > Len(es) THEN <<>>
    ELSE EdgeEntries(es[i], u) \o AdjOf(es, u, i + 1)

\* adj as the code builds it: adj.get(u, []) = BuildAdj(es)[u];
\* "u in adj" iff the list is non-empty (setdefault creates a key only
\* when it appends).
BuildAdj(es) == [u \in Vertices |-> AdjOf(es, u, 1)]

InAdj(adj, u) == Len(adj[u]) > 0

\* nodes of build_graph_and_reverse: every endpoint of every edge.
NodesOf(es) == {es[i][1] : i \in DOMAIN es} \cup {es[i][3] : i \in DOMAIN es}

IsPurelyUndirected(es) == \A i \in DOMAIN es : es[i][2] = "--"

(***************************************************************************)
(* Results.  Python returns a bool, an int or a str; a result is the       *)
(* value tagged with its type.                                             *)
(***************************************************************************)
IntResult(k) == <<"int", k>>
BoolResult(b) == <<"bool", b>>
StrResult(x) == <<"str", x>>
NPHARD == StrResult("NP-HARD")
IsInt(r) == r[1] = "int"

(***************************************************************************)
(* AlternateSolver: alternate.py, alternate_solution.                      *)
(***************************************************************************)
\* A mutation of AltAccepts: the colour test inverted (same colour passes).
AltAcceptsSameColour(color, neighbor, R) == color = (neighbor \in R)

\* Lines 71-82: from a vertex carrying `color`, is `neighbor` enqueued.
AltAccepts(color, neighbor, R) == color # (neighbor \in R)

\* The for-loop over adj.get(current_vertex, []), from index i on.
RECURSIVE AltNeighbors(_, _, _, _, _, _, _)
AltNeighbors(nbrs, i, color, queue, visited, tt, R) ==
    IF i > Len(nbrs) THEN [found |-> FALSE, queue |-> queue, visited |-> visited]
    ELSE LET neighbor == nbrs[i]
         IN  IF neighbor \in visited
             THEN AltNeighbors(nbrs, i + 1, color, queue, visited, tt, R)
             ELSE IF ~AltAccepts(color, neighbor, R)
             THEN AltNeighbors(nbrs, i + 1, color, queue, visited, tt, R)
             ELSE LET q2 == Append(queue, <<neighbor, ~color>>)
                      v2 == visited \cup {neighbor}
                  IN  IF neighbor = tt
                      THEN [found |-> TRUE, queue |-> q2, visited |-> v2]
                      ELSE AltNeighbors(nbrs, i + 1, color, q2, v2, tt, R)

\* The while-loop over the queue.
RECURSIVE AltLoop(_, _, _, _, _)
AltLoop(adj, queue, visited, tt, R) ==
    IF queue = <<>> THEN FALSE
    ELSE LET cur == Head(queue)
             r == AltNeighbors(adj[cur[1]], 1, cur[2], Tail(queue), visited, tt, R)
         IN  IF r.found THEN TRUE ELSE AltLoop(adj, r.queue, r.visited, tt, R)

\* A mutation of AltTrivialPath: the zero-length path counts as alternating.
AltTrivialPathValid == TRUE

\* Lines 47-48: the answer when s == t.
AltTrivialPath == FALSE

\* A mutation of AltStartColour: the source is taken to be black.
AltStartColourBlack(ss, R) == FALSE

\* Lines 53-57: temp_color, True = red, False = black.
AltStartColour(ss, R) == ss \in R

alternate_solution(es, ss, tt, R) ==
    LET adj == BuildAdj(es)
    IN  IF Cardinality(R) = 0 THEN FALSE
        ELSE IF ss = tt THEN AltTrivialPath
        ELSE AltLoop(adj, <<<<ss, AltStartColour(ss, R)>>>>, {ss}, tt, R)

(***************************************************************************)
(* NoneSolver: some.py ("working none.py"), solve_none.                    *)
(***************************************************************************)
\* A mutation of NonePrunes: the red test is forgotten.
NonePrunesNothing(neighbor, R) == FALSE

\* Lines 238-239, reached only for a neighbour that is not t.
NonePrunes(neighbor, R) == neighbor \in R

RECURSIVE NoneNeighbors(_, _, _, _, _, _, _)
NoneNeighbors(nbrs, i, dist, queue, visited, tt, R) ==
    IF i > Len(nbrs) THEN [found |-> FALSE, queue |-> queue, visited |-> visited]
    ELSE LET neighbor == nbrs[i]
         IN  IF neighbor \in visited
             THEN NoneNeighbors(nbrs, i + 1, dist, queue, visited, tt, R)
             ELSE IF neighbor = tt
             THEN [found |-> TRUE, queue |-> queue, visited |-> visited]
             ELSE IF NonePrunes(neighbor, R)
             THEN NoneNeighbors(nbrs, i + 1, dist, queue, visited, tt, R)
             ELSE NoneNeighbors(nbrs, i + 1, dist, Append(queue, <<neighbor, dist + 1>>),
                                visited \cup {neighbor}, tt, R)

RECURSIVE NoneLoop(_, _, _, _, _)
NoneLoop(adj, queue, visited, tt, R) ==
    IF queue = <<>> THEN -1
    ELSE LET cur == Head(queue)
             r == NoneNeighbors(adj[cur[1]], 1, cur[2], Tail(queue), visited, tt, R)
         IN  IF r.found THEN cur[2] + 1 ELSE NoneLoop(adj, r.queue, r.visited, tt, R)

solve_none(es, ss, tt, R) ==
    LET adj == BuildAdj(es)
    IN  IF ss = tt THEN 0
        ELSE NoneLoop(adj, <<<<ss, 0>>>>, {ss}, tt, R)

(***************************************************************************)
(* FewSolver: few.py, solve_few.                                           *)
(***************************************************************************)
\* heapq orders the (cost, vertex) tuples lexicographically.
TupleLeq(a, b) == a[1] < b[1] \/ (a[1] = b[1] /\ a[2] <= b[2])

\* A mutation of PqMinIndex: the oldest entry is popped (a FIFO queue).
PqFirstIndex(pq) == 1

\* Index of the entry heappop returns: a smallest tuple.
PqMinIndex(pq) ==
    CHOOSE i \in DOMAIN pq :
        /\ \A j \in DOMAIN pq : TupleLeq(pq[i], pq[j])
        /\ \A j \in 1..(i - 1) : pq[j] # pq[i]

RemoveAt(q, i) == SubSeq(q, 1, i - 1) \o SubSeq(q, i + 1, Len(q))

\* A mutation of FewStartCost: the source's own colour is not counted.
FewStartCostZero(ss, R) == 0

\* Line 37: start_cost = 1 if s in red_vertices else 0
FewStartCost(ss, R) == Cost(ss, R)

\* A mutation of FewImproves: an equal cost counts as an improvement.
FewImprovesOrEqual(new_cost, distances, neighbor) ==
    neighbor \notin DOMAIN distances \/ new_cost <= distances[neighbor]

\* Line 63: new_cost < distances.get(neighbor, float('inf'))
FewImproves(new_cost, distances, neighbor) ==
    neighbor \notin DOMAIN distances \/ new_cost < distances[neighbor]

\* Line 51: current_cost > distances.get(current_vertex, float('inf'))
FewStale(current_cost, distances, v) ==
    v \in DOMAIN distances /\ current_cost > distances[v]

\* distances[neighbor] = new_cost
DictSet(d, k, x) == [y \in DOMAIN d \cup {k} |-> IF y = k THEN x ELSE d[y]]

RECURSIVE FewNeighbors(_, _, _, _, _, _)
FewNeighbors(nbrs, i, current_cost, pq, distances, R) ==
    IF i > Len(nbrs) THEN [pq |-> pq, distances |-> distances]
    ELSE LET neighbor == nbrs[i]
             new_cost == current_cost + Cost(neighbor, R)
         IN  IF FewImproves(new_cost, distances, neighbor)
             THEN FewNeighbors(nbrs, i + 1, current_cost,
                               Append(pq, <<new_cost, neighbor>>),
                               DictSet(distances, neighbor, new_cost), R)
             ELSE FewNeighbors(nbrs, i + 1, current_cost, pq, distances, R)

RECURSIVE FewLoop(_, _, _, _, _)
FewLoop(adj, pq, distances, tt, R) ==
    IF pq = <<>> THEN -1
    ELSE LET i == PqMinIndex(pq)
             current_cost == pq[i][1]
             current_vertex == pq[i][2]
             rest == RemoveAt(pq, i)
         IN  IF current_vertex = tt THEN current_cost
             ELSE IF FewStale(current_cost, distances, current_vertex)
             THEN FewLoop(adj, rest, distances, tt, R)
             ELSE LET r == FewNeighbors(adj[current_vertex], 1, current_cost,
                                        rest, distances, R)
                  IN  FewLoop(adj, r.pq, r.distances, tt, R)

solve_few(es, ss, tt, R) ==
    LET adj == BuildAdj(es)
        start_cost == FewStartCost(ss, R)
    IN  FewLoop(adj, <<<<start_cost, ss>>>>, (ss :> start_cost), tt, R)

(***************************************************************************)
(* SomeSolver: some.py, _bfs_can_reach and solve_some.                     *)
(***************************************************************************)
RECURSIVE BfsNeighbors(_, _, _, _, _)
BfsNeighbors(nbrs, i, queue, visited, end_node) ==
    IF i > Len(nbrs) THEN [found |-> FALSE, queue |-> queue, visited |-> visited]
    ELSE LET neighbor == nbrs[i]
         IN  IF neighbor = end_node
             THEN [found |-> TRUE, queue |-> queue, visited |-> visited]
             ELSE IF neighbor \notin visited
             THEN BfsNeighbors(nbrs, i + 1, Append(queue, neighbor),
                               visited \cup {neighbor}, end_node)
             ELSE BfsNeighbors(nbrs, i + 1, queue, visited, end_node)

RECURSIVE BfsLoop(_, _, _, _)
BfsLoop(adj, queue, visited, end_node) ==
    IF queue = <<>> THEN FALSE
    ELSE LET r == BfsNeighbors(adj[Head(queue)], 1, Tail(queue), visited, end_node)
         IN  IF r.found THEN TRUE ELSE BfsLoop(adj, r.queue, r.visited, end_node)

\* A mutation of _bfs_can_reach: only direct neighbours are looked at.
BfsOneHop(start_node, end_node, adj) ==
    start_node = end_node \/ \E i \in DOMAIN adj[start_node] : adj[start_node][i] = end_node

_bfs_can_reach(start_node, end_node, adj) ==
    IF start_node = end_node THEN TRUE
    ELSE IF ~InAdj(adj, start_node) THEN FALSE
    ELSE BfsLoop(adj, <<start_node>>, {start_node}, end_node)

\* A mutation of SomeThrough: the second search is forgotten.
SomeReachesRed(r, adj, ss, tt) == _bfs_can_reach(ss, r, adj)

\* Lines 68-77: can_s_reach_r and can_r_reach_t
SomeThrough(r, adj, ss, tt) ==
    _bfs_can_reach(ss, r, adj) /\ _bfs_can_reach(r, tt, adj)

\* The loop over red_vertices, in the iteration order `order`.
RECURSIVE SomeLoop(_, _, _, _, _)
SomeLoop(order, i, adj, ss, tt) ==
    IF i > Len(order) THEN "false"
    ELSE IF SomeThrough(order[i], adj, ss, tt)
    THEN "true"
    ELSE SomeLoop(order, i + 1, adj, ss, tt)

solve_some(es, ss, tt, order) == SomeLoop(order, 1, BuildAdj(es), ss, tt)

(***************************************************************************)
(* ManySolver: solved_many.py.                                             *)
(***************************************************************************)
\* A mutation of Max: min is written for max.
MinOf(a, b) == IF a <= b THEN a ELSE b

Max(a, b) == IF a >= b THEN a ELSE b

\* dict.get(k, -1)
DictGet(d, k) == IF k \in DOMAIN d THEN d[k] ELSE -1

Occurrences(q, v) == Cardinality({i \in DOMAIN q : q[i] = v})

\* Lines 112-115: in_degree[v] counts the entries v in the lists of all nodes.
RECURSIVE InDegreeOf(_, _, _, _)
InDegreeOf(adj, nodes, i, v) ==
    IF i > Len(nodes) THEN 0
    ELSE Occurrences(adj[nodes[i]], v) + InDegreeOf(adj, nodes, i + 1, v)

InDegree(adj, nodes) ==
    [v \in {nodes[i] : i \in DOMAIN nodes} |-> InDegreeOf(adj, nodes, 1, v)]

\* Line 117: deque([u for u in nodes if in_degree[u] == 0])
ZeroInDegree(nodes, in_degree) == SelectSeq(nodes, LAMBDA u : in_degree[u] = 0)

\* Lines 124-127
RECURSIVE KahnNeighbors(_, _, _, _)
KahnNeighbors(nbrs, i, in_degree, queue) ==
    IF i > Len(nbrs) THEN [in_degree |-> in_degree, queue |-> queue]
    ELSE LET v == nbrs[i]
             d2 == [in_degree EXCEPT ![v] = @ - 1]
         IN  KahnNeighbors(nbrs, i + 1, d2,
                           IF d2[v] = 0 THEN Append(queue, v) ELSE queue)

\* Lines 120-127
RECURSIVE KahnLoop(_, _, _, _)
KahnLoop(adj, queue, in_degree, topological_order) ==
    IF queue = <<>> THEN topological_order
    ELSE LET u == Head(queue)
             r == KahnNeighbors(adj[u], 1, in_degree, Tail(queue))
         IN  KahnLoop(adj, r.queue, r.in_degree, Append(topological_order, u))

\* A mutation of IsDag: the cycle check is lost.
IsDagAlways(topological_order, nodes) == TRUE

\* Line 129: is_dag = (len(topological_order) == len(nodes))
IsDag(topological_order, nodes) == Len(topological_order) = Len(nodes)

\* Returns the topological order; is_dag is IsDag of it.
get_topological_order_and_check_dag(adj, nodes) ==
    LET in_degree == InDegree(adj, nodes)
    IN  KahnLoop(adj, ZeroInDegree(nodes, in_degree), in_degree, <<>>)

\* A mutation of ManySourceMissing: the test of line 146 is lost.
ManySourceNeverMissing(ss, nodes) == FALSE

\* Line 146: s not in nodes
ManySourceMissing(ss, nodes) == \A i \in DOMAIN nodes : nodes[i] # ss

\* A mutation of ManyProcessed: unreachable vertices are relaxed from too.
ManyProcessedAll(dpu) == TRUE

\* Line 152: dp[u] != -1
ManyProcessed(dpu) == dpu # -1

\* Lines 153-156
RECURSIVE DagNeighbors(_, _, _, _, _)
DagNeighbors(nbrs, i, u, dp, R) ==
    IF i > Len(nbrs) THEN dp
    ELSE LET v == nbrs[i]
             new_cost == dp[u] + Cost(v, R)
         IN  DagNeighbors(nbrs, i + 1, u, [dp EXCEPT ![v] = Max(@, new_cost)], R)

\* Lines 151-156
RECURSIVE DagLoop(_, _, _, _, _)
DagLoop(adj, topological_order, i, dp, R) ==
    IF i > Len(topological_order) THEN dp
    ELSE LET u == topological_order[i]
         IN  IF ManyProcessed(dp[u])
             THEN DagLoop(adj, topological_order, i + 1,
                          DagNeighbors(adj[u], 1, u, dp, R), R)
             ELSE DagLoop(adj, topological_order, i + 1, dp, R)

\* A mutation of DagOrder: the vertices are relaxed in the order of list(nodes).
DagOrderNodes(topological_order, nodes) == nodes

\* Line 151: for u in topological_order
DagOrder(topological_order, nodes) == topological_order

solve_many_dag(adj, nodes, ss, tt, R, topological_order) ==
    LET dp0 == [v \in {nodes[i] : i \in DOMAIN nodes} |-> -1]
    IN  IF ManySourceMissing(ss, nodes) THEN -1
        ELSE DictGet(DagLoop(adj, DagOrder(topological_order, nodes), 1,
                             DictSet(dp0, ss, Cost(ss, R)), R), tt)

\* Lines 188-206: the for-loop over adj.get(u, []).
RECURSIVE TreeNeighbors(_, _, _, _, _, _, _)
TreeNeighbors(nbrs, i, u, queue, max_red_cost, tt, R) ==
    IF i > Len(nbrs)
    THEN [found |-> FALSE, value |-> -1, queue |-> queue, max_red_cost |-> max_red_cost]
    ELSE LET v == nbrs[i]
             new_cost == max_red_cost[u] + Cost(v, R)
             fresh == max_red_cost[v] = -1
             c2 == IF fresh THEN [max_red_cost EXCEPT ![v] = new_cost] ELSE max_red_cost
             q2 == IF fresh THEN Append(queue, v) ELSE queue
         IN  IF v = tt
             THEN [found |-> TRUE, value |-> new_cost, queue |-> q2, max_red_cost |-> c2]
             ELSE TreeNeighbors(nbrs, i + 1, u, q2, c2, tt, R)

\* Lines 184-209
RECURSIVE TreeLoop(_, _, _, _, _)
TreeLoop(adj, queue, max_red_cost, tt, R) ==
    IF queue = <<>> THEN DictGet(max_red_cost, tt)
    ELSE LET u == Head(queue)
             r == TreeNeighbors(adj[u], 1, u, Tail(queue), max_red_cost, tt, R)
         IN  IF r.found THEN r.value ELSE TreeLoop(adj, r.queue, r.max_red_cost, tt, R)

solve_many_undirected_acyclic(adj, nodes, ss, tt, R) ==
    LET nodeSet == {nodes[i] : i \in DOMAIN nodes}
    IN  IF ss \notin nodeSet \/ tt \notin nodeSet THEN -1
        ELSE TreeLoop(adj, <<ss>>, [v \in nodeSet |-> IF v = ss THEN Cost(ss, R) ELSE -1],
                      tt, R)

\* A mutation of TreeHeuristic: the count of vertices and edges is not looked at.
TreeHeuristicAnyUndirected(is_purely_undirected, nodes, E_count) ==
    is_purely_undirected

\* Line 226: is_purely_undirected and len(nodes) == E_count + 1
TreeHeuristic(is_purely_undirected, nodes, E_count) ==
    is_purely_undirected /\ Len(nodes) = E_count + 1

\* Which branch of solve_many_entry an instance takes; `nodes` is list(nodes),
\* the edge-derived vertex set in the iteration order of the run.
Dispatch(es, nodes) ==
    IF IsDag(get_topological_order_and_check_dag(BuildAdj(es), nodes), nodes) THEN "dag"
    ELSE IF TreeHeuristic(IsPurelyUndirected(es), nodes, Len(es)) THEN "tree"
    ELSE "np-hard"

solve_many_entry(E_count, ss, tt, R, es, nodes) ==
    LET adj == BuildAdj(es)
        topological_order == get_topological_order_and_check_dag(adj, nodes)
    IN  IF IsDag(topological_order, nodes)
        THEN IntResult(solve_many_dag(adj, nodes, ss, tt, R, topological_order))
        ELSE IF TreeHeuristic(IsPurelyUndirected(es), nodes, E_count)
        THEN IntResult(solve_many_undirected_acyclic(adj, nodes, ss, tt, R))
        ELSE NPHARD

(***************************************************************************)
(* The state machine: an instance is drawn, then one solver is applied.    *)
(***************************************************************************)
\* The orders in which a Python set S may be iterated.
Orders(S) ==
    {f \in [1..Cardinality(S) -> S] : \A i, j \in DOMAIN f : f[i] = f[j] => i = j}

Init ==
    /\ edges \in EdgeLists
    /\ s \in Vertices
    /\ t \in Vertices
    /\ red \in SUBSET Vertices
    /\ pc = "idle"
    /\ result = <<"none", 0>>
    /\ locals = NoLocals

RunAlternate ==
    /\ pc = "idle"
    /\ pc' = "alternate"
    /\ result' = BoolResult(alternate_solution(edges, s, t, red))
    /\ UNCHANGED <<edges, s, t, red, locals>>

RunNone ==
    /\ pc = "idle"
    /\ pc' = "none"
    /\ result' = IntResult(solve_none(edges, s, t, red))
    /\ UNCHANGED <<edges, s, t, red, locals>>

RunFew ==
    /\ pc = "idle"
    /\ pc' = "few"
    /\ result' = IntResult(solve_few(edges, s, t, red))
    /\ UNCHANGED <<edges, s, t, red, locals>>

RunSome ==
    /\ pc = "idle"
    /\ pc' = "some"
    /\ \E order \in Orders(red) :
           result' = StrResult(solve_some(edges, s, t, order))
    /\ UNCHANGED <<edges, s, t, red, locals>>

RunMany ==
    /\ pc = "idle"
    /\ pc' = "many"
    /\ \E nodes \in Orders(NodesOf(edges)) :
           result' = solve_many_entry(Len(edges), s, t, red, edges, nodes)
    /\ UNCHANGED <<edges, s, t, red, locals>>

Next == RunAlternate \/ RunNone \/ RunFew \/ RunSome \/ RunMany

Spec == Init /\ [][Next]_vars

\* One solver alone.
SpecAlternate == Init /\ [][RunAlternate]_vars
SpecNone == Init /\ [][RunNone]_vars
SpecFew == Init /\ [][RunFew]_vars
SpecSome == Init /\ [][RunSome]_vars
SpecMany == Init /\ [][RunMany]_vars

\* Every solver, on the instances in which s or t is no endpoint of any edge.
InitMissing == Init /\ (s \notin NodesOf(edges) \/ t \notin NodesOf(edges))
SpecMissing == InitMissing /\ [][Next]_vars

(***************************************************************************)
(* The search loops followed step by step: one action enters a solver      *)
(* (its early returns and the initialisation of its queue), one action is  *)
(* one iteration of its while-loop, the for-loop over the neighbours       *)
(* included.  locals holds the solver's local variables, and a log of      *)
(* what was appended, enqueued, pushed or popped so far.                   *)
(***************************************************************************)
\* What an iteration appended to a queue that had `before` entries when the
\* iteration popped one of them.
Appended(before, after) == SubSeq(after, before, Len(after))

\* The (vertex, colour) tuples of Alternate's queue are kept in locals with
\* the colour as Python's int value of the bool (True == 1, False == 0).
AsInts(q) == [k \in DOMAIN q |-> <<q[k][1], IF q[k][2] THEN 1 ELSE 0>>]
AsBools(q) == [k \in DOMAIN q |-> <<q[k][1], q[k][2] = 1>>]

\* alternate.py lines 41-58
AlternateEnter ==
    /\ pc = "idle"
    /\ IF Cardinality(red) = 0 \/ s = t
       THEN /\ pc' = "alternate"
            /\ result' = BoolResult(IF Cardinality(red) = 0 THEN FALSE
                                    ELSE AltTrivialPath)
            /\ locals' = [queue |-> <<>>, visited |-> {}, appended |-> <<>>]
       ELSE /\ pc' = "alternate_loop"
            /\ result' = result
            /\ locals' = [queue |-> AsInts(<<<<s, AltStartColour(s, red)>>>>),
                          visited |-> {s},
                          appended |-> AsInts(<<<<s, AltStartColour(s, red)>>>>)]
    /\ UNCHANGED <<edges, s, t, red>>

\* alternate.py lines 61-89: one iteration of `while queue`, or the return
\* after the loop.
AlternateStep ==
    /\ pc = "alternate_loop"
    /\ IF locals.queue = <<>>
       THEN /\ pc' = "alternate"
            /\ result' = BoolResult(FALSE)
            /\ locals' = locals
       ELSE LET queue == AsBools(locals.queue)
                cur == Head(queue)
                r == AltNeighbors(BuildAdj(edges)[cur[1]], 1, cur[2],
                                  Tail(queue), locals.visited, t, red)
            IN  /\ locals' = [queue |-> AsInts(r.queue),
                              visited |-> r.visited,
                              appended |-> locals.appended \o
                                  AsInts(Appended(Len(queue), r.queue))]
                /\ IF r.found
                   THEN pc' = "alternate" /\ result' = BoolResult(TRUE)
                   ELSE pc' = pc /\ result' = result
    /\ UNCHANGED <<edges, s, t, red>>

\* some.py lines 214-219
NoneEnter ==
    /\ pc = "idle"
    /\ IF s = t
       THEN /\ pc' = "none"
            /\ result' = IntResult(0)
            /\ locals' = [queue |-> <<>>, visited |-> {}, enqueued |-> <<>>]
       ELSE /\ pc' = "none_loop"
            /\ result' = result
            /\ locals' = [queue |-> <<<<s, 0>>>>, visited |-> {s}, enqueued |-> <<s>>]
    /\ UNCHANGED <<edges, s, t, red>>

\* some.py lines 222-247
NoneStep ==
    /\ pc = "none_loop"
    /\ IF locals.queue = <<>>
       THEN /\ pc' = "none"
            /\ result' = IntResult(-1)
            /\ locals' = locals
       ELSE LET cur == Head(locals.queue)
                r == NoneNeighbors(BuildAdj(edges)[cur[1]], 1, cur[2],
                                   Tail(locals.queue), locals.visited, t, red)
                added == Appended(Len(locals.queue), r.queue)
            IN  /\ locals' = [queue |-> r.queue,
                              visited |-> r.visited,
                              enqueued |-> locals.enqueued \o
                                  [k \in DOMAIN added |-> added[k][1]]]
                /\ IF r.found
                   THEN pc' = "none" /\ result' = IntResult(cur[2] + 1)
                   ELSE pc' = pc /\ result' = result
    /\ UNCHANGED <<edges, s, t, red>>

\* few.py lines 31-39
FewEnter ==
    /\ pc = "idle"
    /\ pc' = "few_loop"
    /\ LET start_cost == FewStartCost(s, red)
       IN  locals' = [pq |-> <<<<start_cost, s>>>>,
                      distances |-> (s :> start_cost),
                      pushed |-> <<<<start_cost, s>>>>,
                      popped |-> <<>>]
    /\ UNCHANGED <<edges, s, t, red, result>>

\* few.py lines 42-68: one iteration of `while pq`, or the return after it.
FewStep ==
    /\ pc = "few_loop"
    /\ IF locals.pq = <<>>
       THEN /\ pc' = "few"
            /\ result' = IntResult(-1)
            /\ locals' = locals
       ELSE LET i == PqMinIndex(locals.pq)
                current_cost == locals.pq[i][1]
                current_vertex == locals.pq[i][2]
                rest == RemoveAt(locals.pq, i)
                log == Append(locals.popped, <<current_cost, current_vertex>>)
            IN  IF current_vertex = t
                THEN /\ pc' = "few"
                     /\ result' = IntResult(current_cost)
                     /\ locals' = [locals EXCEPT !.pq = rest, !.popped = log]
                ELSE IF FewStale(current_cost, locals.distances, current_vertex)
                THEN /\ pc' = pc
                     /\ result' = result
                     /\ locals' = [locals EXCEPT !.pq = rest, !.popped = log]
                ELSE LET r == FewNeighbors(BuildAdj(edges)[current_vertex], 1,
                                           current_cost, rest, locals.distances, red)
                     IN  /\ pc' = pc
                         /\ result' = result
                         /\ locals' = [pq |-> r.pq,
                                       distances |-> r.distances,
                                       pushed |-> locals.pushed \o
                                           Appended(Len(locals.pq), r.pq),
                                       popped |-> log]
    /\ UNCHANGED <<edges, s, t, red>>

\* solved_many.py lines 215-219 and 112-118: the graph is built and Kahn's
\* queue is seeded from list(nodes).
KahnEnter ==
    /\ pc = "idle"
    /\ pc' = "kahn_loop"
    /\ \E nodes \in Orders(NodesOf(edges)) :
           LET in_degree == InDegree(BuildAdj(edges), nodes)
           IN  locals' = [nodes |-> nodes,
                          queue |-> ZeroInDegree(nodes, in_degree),
                          in_degree |-> in_degree,
                          topological_order |-> <<>>]
    /\ UNCHANGED <<edges, s, t, red, result>>

\* solved_many.py lines 120-127: one iteration of `while queue`.
KahnStep ==
    /\ pc = "kahn_loop"
    /\ IF locals.queue = <<>>
       THEN pc' = "many_dispatch" /\ locals' = locals
       ELSE LET u == Head(locals.queue)
                r == KahnNeighbors(BuildAdj(edges)[u], 1, locals.in_degree,
                                   Tail(locals.queue))
            IN  /\ pc' = pc
                /\ locals' = [locals EXCEPT
                                  !.queue = r.queue,
                                  !.in_degree = r.in_degree,
                                  !.topological_order = Append(@, u)]
    /\ UNCHANGED <<edges, s, t, red, result>>

\* solved_many.py lines 129 and 221-269: is_dag is computed and the branch
\* of solve_many_entry is chosen.
ManyDispatch ==
    /\ pc = "many_dispatch"
    /\ IF IsDag(locals.topological_order, locals.nodes)
       THEN pc' = "dag_solver" /\ result' = result
       ELSE IF TreeHeuristic(IsPurelyUndirected(edges), locals.nodes, Len(edges))
       THEN pc' = "tree_solver" /\ result' = result
       ELSE pc' = "many" /\ result' = NPHARD
    /\ UNCHANGED <<edges, s, t, red, locals>>

\* solved_many.py lines 136-158: solve_many_dag, one for-loop over the
\* topological order.
DagSolve ==
    /\ pc = "dag_solver"
    /\ pc' = "many"
    /\ result' = IntResult(solve_many_dag(BuildAdj(edges), locals.nodes, s, t, red,
                                          locals.topological_order))
    /\ UNCHANGED <<edges, s, t, red, locals>>

\* solved_many.py lines 170-182: the early return and the initialisation
\* of the BFS of solve_many_undirected_acyclic.
TreeEnter ==
    /\ pc = "tree_solver"
    /\ LET nodeSet == {locals.nodes[i] : i \in DOMAIN locals.nodes}
       IN  IF s \notin nodeSet \/ t \notin nodeSet
           THEN /\ pc' = "many"
                /\ result' = IntResult(-1)
                /\ locals' = locals
           ELSE /\ pc' = "tree_loop"
                /\ result' = result
                /\ locals' = [nodes |-> locals.nodes,
                              topological_order |-> locals.topological_order,
                              queue |-> <<s>>,
                              max_red_cost |->
                                  [v \in nodeSet |-> IF v = s THEN Cost(s, red) ELSE -1],
                              enqueued |-> <<s>>]
    /\ UNCHANGED <<edges, s, t, red>>

\* solved_many.py lines 184-209
TreeStep ==
    /\ pc = "tree_loop"
    /\ IF locals.queue = <<>>
       THEN /\ pc' = "many"
            /\ result' = IntResult(DictGet(locals.max_red_cost, t))
            /\ locals' = locals
       ELSE LET u == Head(locals.queue)
                r == TreeNeighbors(BuildAdj(edges)[u], 1, u, Tail(locals.queue),
                                   locals.max_red_cost, t, red)
            IN  /\ locals' = [locals EXCEPT
                                  !.queue = r.queue,
                                  !.max_red_cost = r.max_red_cost,
                                  !.enqueued = @ \o Appended(Len(locals.queue), r.queue)]
                /\ IF r.found
                   THEN pc' = "many" /\ result' = IntResult(r.value)
                   ELSE pc' = pc /\ result' = result
    /\ UNCHANGED <<edges, s, t, red>>

AlternateSteps == AlternateEnter \/ AlternateStep
NoneSteps == NoneEnter \/ NoneStep
FewSteps == FewEnter \/ FewStep
ManySteps == KahnEnter \/ KahnStep \/ ManyDispatch \/ DagSolve \/ TreeEnter \/ TreeStep

\* A solver has returned.
Returned == pc \in {"alternate", "none", "few", "many"}

\* The step-wise runs return what the solvers return.
StepsAgree ==
    /\ pc = "alternate" => result = BoolResult(alternate_solution(edges, s, t, red))
    /\ pc = "none" => result = IntResult(solve_none(edges, s, t, red))
    /\ pc = "few" => result = IntResult(solve_few(edges, s, t, red))
    /\ pc = "many" =>
           result = solve_many_entry(Len(edges), s, t, red, edges, locals.nodes)

\* Longest edge list of an instance on which every loop is followed.
MaxStepEdges == 2

\* The instances on which every loop is followed: the source is vertex 1.
InitSteps == Init /\ Len(edges) <= MaxStepEdges /\ s = 1

NextSteps == AlternateSteps \/ NoneSteps \/ FewSteps \/ ManySteps

\* Every loop, step by step.  A solver is one Python call running in one
\* thread: once entered it is executed until it returns, so a step that is
\* possible is eventually taken.
SpecSteps == InitSteps /\ [][NextSteps]_vars /\ WF_vars(NextSteps)

SpecAlternateSteps == Init /\ [][AlternateSteps]_vars

\* solve_many_entry alone, step by step, whatever the source.
InitManySteps == Init /\ Len(edges) <= MaxStepEdges
SpecManySteps == InitManySteps /\ [][ManySteps]_vars
SpecFewSteps == Init /\ [][FewSteps]_vars

(***************************************************************************)
(* Reference notions, stated on the edge list itself.                      *)
(***************************************************************************)
\* One step u to v is allowed: a Directed edge u -> v, or an Undirected
\* edge between them.
HasArc(es, u, v) ==
    \E i \in DOMAIN es :
        \/ es[i][1] = u /\ es[i][3] = v
        \/ es[i][2] = "--" /\ es[i][1] = v /\ es[i][3] = u

\* Every sequence of distinct vertices.
SimpleSeqs ==
    UNION {{q \in [1..n -> Vertices] : \A i, j \in 1..n : q[i] = q[j] => i = j} :
               n \in 1..Cardinality(Vertices)}

\* The simple paths from a to b; <<a>> is the zero-length path when a = b.
Paths(es, a, b) ==
    {p \in SimpleSeqs :
        /\ p[1] = a
        /\ p[Len(p)] = b
        /\ \A i \in 1..(Len(p) - 1) : HasArc(es, p[i], p[i + 1])}

RedCount(p, R) == Cardinality({i \in DOMAIN p : p[i] \in R})

SetMax(S) == CHOOSE x \in S : \A y \in S : y <= x
SetMin(S) == CHOOSE x \in S : \A y \in S : x <= y

\* b can be reached from a (a itself included).
Reaches(es, a, b) == Paths(es, a, b) # {}

\* Some vertex lies on a cycle of arcs (an Undirected edge is a cycle of two).
HasCycle(es) == \E u, v \in Vertices : HasArc(es, u, v) /\ Reaches(es, v, u)

\* A cycle that uses a Directed edge; a directed self-loop is one.
HasDirectedCycle(es) ==
    \E i \in DOMAIN es : es[i][2] = "->" /\ Reaches(es, es[i][3], es[i][1])

\* The edges form an undirected tree: all Undirected, connected, |V| = |E| + 1.
IsTree(es) ==
    /\ Len(es) >= 1
    /\ IsPurelyUndirected(es)
    /\ Cardinality(NodesOf(es)) = Len(es) + 1
    /\ \A a, b \in NodesOf(es) : Reaches(es, a, b)

\* The instance goes to the tree solver.
DispatchedToTree(es) == \E nodes \in Orders(NodesOf(es)) : Dispatch(es, nodes) = "tree"

Nodes == NodesOf(edges)

\* The largest and smallest number of red vertices on a simple s-t path.
MaxRedOnPath == SetMax({RedCount(p, red) : p \in Paths(edges, s, t)})
MinRedOnPath == SetMin({RedCount(p, red) : p \in Paths(edges, s, t)})

(***************************************************************************)
(* C1.  On an undirected tree containing s and t the tree solver returns   *)
(* the number of red vertices on the unique simple path from s to t; for   *)
(* s = t that path is the single vertex s.                                 *)
(***************************************************************************)
C1_TreeResultIsPathCount ==
    (pc = "many" /\ IsTree(edges) /\ DispatchedToTree(edges)
        /\ s \in Nodes /\ t \in Nodes)
    => result = IntResult(RedCount(CHOOSE p \in Paths(edges, s, t) : TRUE, red))

(***************************************************************************)
(* C2.  A non-negative integer returned by solve_many_entry is the maximum *)
(* number of red vertices over all simple s-t paths.                       *)
(***************************************************************************)
C2_NonNegativeIsMaximum ==
    (pc = "many" /\ IsInt(result) /\ result[2] >= 0)
    => (Paths(edges, s, t) # {} /\ result[2] = MaxRedOnPath)

(***************************************************************************)
(* C3.  If s or t is no endpoint of any edge, every solver returns its     *)
(* unreachable value: -1 for None, Few and Many, false for Alternate and   *)
(* Some, also when s = t.                                                  *)
(***************************************************************************)
Missing == s \notin Nodes \/ t \notin Nodes

C3_MissingIsUnreachable ==
    Missing =>
        /\ pc = "alternate" => result = BoolResult(FALSE)
        /\ pc = "some" => result = StrResult("false")
        /\ pc \in {"none", "few", "many"} => result = IntResult(-1)

\* C3 as amended.  With s or t no endpoint of any edge: Alternate returns
\* False; Many returns -1, or "NP-HARD" when the graph has a cycle and is
\* not tree-shaped; for s # t None and Few return -1 and Some "false"; for
\* s = t None returns 0, Few the cost of s, and Some "true" iff s is red.
C3_MissingVertexResults ==
    Missing =>
        /\ pc = "alternate" => result = BoolResult(FALSE)
        /\ pc = "many" =>
               result = IF HasCycle(edges)
                           /\ ~(IsPurelyUndirected(edges)
                                /\ Cardinality(Nodes) = Len(edges) + 1)
                        THEN NPHARD ELSE IntResult(-1)
        /\ pc = "none" => result = IntResult(IF s = t THEN 0 ELSE -1)
        /\ pc = "few" => result = IntResult(IF s = t THEN Cost(s, red) ELSE -1)
        /\ pc = "some" =>
               result = StrResult(IF s = t /\ s \in red THEN "true" ELSE "false")

C3_Witness ==
    /\ Missing
    /\ s = t
    /\ Len(edges) > 0
    /\ pc = "many"
    /\ result = IntResult(-1)

(***************************************************************************)
(* C4.  On a DAG solve_many_entry returns the maximum number of red        *)
(* vertices over all s-t paths, s and t counted, and -1 exactly when t is  *)
(* not reachable from s.                                                   *)
(***************************************************************************)
C4_DagMaximumAllInstances ==
    (pc = "many" /\ ~HasCycle(edges))
    => result = IntResult(IF Reaches(edges, s, t) THEN MaxRedOnPath ELSE -1)

\* C4 as amended: the same when s is an endpoint of some edge; when it is
\* not (s = t included), the result is -1.
C4_DagMaximum ==
    (pc = "many" /\ ~HasCycle(edges))
    => result = IntResult(IF s \in Nodes /\ Reaches(edges, s, t)
                          THEN MaxRedOnPath ELSE -1)

C4_Witness ==
    /\ pc = "many"
    /\ ~HasCycle(edges)
    /\ \E p, q \in Paths(edges, s, t) :
           RedCount(p, red) < RedCount(q, red) /\ result = IntResult(RedCount(q, red))

(***************************************************************************)
(* C5.  solve_few returns the minimum number of red vertices over all s-t  *)
(* paths (the zero-length path when s = t included), endpoints counted,    *)
(* and -1 exactly when t is not reachable from s; with no red vertex the   *)
(* result is 0 if t is reachable and -1 otherwise.                         *)
(***************************************************************************)
C5_FewMinimum ==
    pc = "few" =>
        /\ result = IntResult(IF Reaches(edges, s, t) THEN MinRedOnPath ELSE -1)
        /\ red = {} => result = IntResult(IF Reaches(edges, s, t) THEN 0 ELSE -1)

C5_Witness ==
    /\ pc = "few"
    /\ \E p, q \in Paths(edges, s, t) :
           RedCount(p, red) < RedCount(q, red) /\ result = IntResult(RedCount(p, red))

(***************************************************************************)
(* C6.  solve_none returns the number of edges of a shortest s-t path      *)
(* whose vertices strictly between s and t are all black, 0 when s = t,    *)
(* and -1 exactly when there is no such path.                              *)
(***************************************************************************)
InternallyBlackPaths ==
    {p \in Paths(edges, s, t) : \A i \in 2..(Len(p) - 1) : p[i] \notin red}

C6_NoneShortest ==
    pc = "none" =>
        result = IntResult(IF s = t THEN 0
                           ELSE IF InternallyBlackPaths = {} THEN -1
                           ELSE SetMin({Len(p) - 1 : p \in InternallyBlackPaths}))

C6_Witness ==
    /\ pc = "none"
    /\ s \in red
    /\ t \in red
    /\ result = IntResult(2)

(***************************************************************************)
(* C7.  With s # t and a non-empty RedSet, alternate_solution returns True *)
(* iff some path from s to t has every two consecutive vertices of         *)
(* different colours.                                                      *)
(***************************************************************************)
Alternates(p) == \A i \in 1..(Len(p) - 1) : (p[i] \in red) # (p[i + 1] \in red)

C7_AlternateIffPath ==
    (pc = "alternate" /\ s # t /\ red # {})
    => result = BoolResult(\E p \in Paths(edges, s, t) : Alternates(p))

C7_Witness ==
    /\ pc = "alternate"
    /\ result = BoolResult(TRUE)
    /\ ~HasArc(edges, s, t)

(***************************************************************************)
(* C8.  solve_some returns "true" iff some red vertex is reachable from s  *)
(* (s included) and reaches t (t included): it agrees with the             *)
(* set-intersection form.                                                  *)
(***************************************************************************)
ReachableFromS == {v \in Vertices : Reaches(edges, s, v)}
CanReachT == {v \in Vertices : Reaches(edges, v, t)}

C8_SomeIsIntersection ==
    pc = "some" =>
        result = StrResult(IF red \cap ReachableFromS \cap CanReachT # {}
                           THEN "true" ELSE "false")

C8_Witness ==
    /\ pc = "some"
    /\ result = StrResult("true")
    /\ s # t
    /\ s \notin red
    /\ t \notin red
    /\ ~HasArc(edges, s, t)

(***************************************************************************)
(* C9.  Every instance whose graph has a cycle through a Directed edge (a  *)
(* directed self-loop included), wherever it lies, gets "NP-HARD".         *)
(***************************************************************************)
C9_DirectedCycleIsNPHard ==
    (pc = "many" /\ HasDirectedCycle(edges)) => result = NPHARD

C9_Witness ==
    /\ pc = "many"
    /\ result = NPHARD
    /\ s # t
    /\ Reaches(edges, s, t)
    /\ \A i \in DOMAIN edges : edges[i][2] = "->"
    /\ \E i \in DOMAIN edges :
           /\ edges[i][2] = "->"
           /\ edges[i][1] = edges[i][3]
           /\ edges[i][1] \notin {s, t}

(***************************************************************************)
(* C10.  alternate_solution returns False whenever RedSet is empty and     *)
(* whenever s = t, whatever the edges.                                     *)
(***************************************************************************)
C10_AlternateFalse ==
    (pc = "alternate" /\ (red = {} \/ s = t)) => result = BoolResult(FALSE)

C10_Witness ==
    /\ pc = "alternate"
    /\ s = t
    /\ result = BoolResult(FALSE)
    /\ \E a \in Vertices :
           /\ (a \in red) # (s \in red)
           /\ HasArc(edges, s, a)
           /\ HasArc(edges, a, s)

(***************************************************************************)
(* C11.  With the edges, s and t fixed, adding a vertex x to the red set   *)
(* never lowers the result of solve_few, and the result is -1 for the      *)
(* larger set exactly when it is -1 for the smaller one.                   *)
(***************************************************************************)
\* solve_few on the instance and again on the instance with x made red.
RunFewGrow ==
    /\ pc = "idle"
    /\ pc' = "few_grow"
    /\ result' = IntResult(solve_few(edges, s, t, red))
    /\ \E x \in Vertices :
           locals' = [x |-> x,
                      grown |-> IntResult(solve_few(edges, s, t, red \cup {x}))]
    /\ UNCHANGED <<edges, s, t, red>>

SpecFewGrow == Init /\ [][RunFewGrow]_vars

C11_FewMonotone ==
    pc = "few_grow" =>
        /\ locals.grown[2] >= result[2]
        /\ (locals.grown[2] = -1) <=> (result[2] = -1)

\* A black vertex other than s and t is made red and the result rises by one.
C11_Witness ==
    /\ pc = "few_grow"
    /\ locals.x \notin red
    /\ locals.x \notin {s, t}
    /\ result[2] >= 0
    /\ locals.grown[2] = result[2] + 1

(***************************************************************************)
(* C12.  Every solver is deterministic: two runs on the same instance      *)
(* return the same result, whatever the order in which solve_some iterates *)
(* the red set and whatever the order of list(nodes) that seeds Kahn's     *)
(* queue in solve_many_entry.                                              *)
(***************************************************************************)
\* Two runs of solve_some, each with an iteration order of its own.
RunSomeTwice ==
    /\ pc = "idle"
    /\ pc' = "some_twice"
    /\ LET outcomes == {StrResult(solve_some(edges, s, t, order)) :
                            order \in Orders(red)}
       IN  \E first \in outcomes, second \in outcomes :
               /\ result' = first
               /\ locals' = [again |-> second]
    /\ UNCHANGED <<edges, s, t, red>>

\* Two runs of solve_many_entry, each with an order of list(nodes) of its own.
RunManyTwice ==
    /\ pc = "idle"
    /\ pc' = "many_twice"
    /\ LET outcomes == {solve_many_entry(Len(edges), s, t, red, edges, nodes) :
                            nodes \in Orders(NodesOf(edges))}
       IN  \E first \in outcomes, second \in outcomes :
               /\ result' = first
               /\ locals' = [again |-> second]
    /\ UNCHANGED <<edges, s, t, red>>

\* Longest edge list of an instance that is solved once per iteration order.
MaxTwiceEdges == 2

InitTwice == Init /\ Len(edges) <= MaxTwiceEdges

SpecTwice == InitTwice /\ [][RunSomeTwice \/ RunManyTwice]_vars

C12_Deterministic ==
    pc \in {"some_twice", "many_twice"} => locals.again = result

\* A DAG with two sources, so that Kahn's queue is seeded in either order,
\* and a red vertex on the way from s to t.
C12_Witness ==
    /\ pc = "many_twice"
    /\ result[1] = "int"
    /\ result[2] >= 1
    /\ locals.again = result
    /\ s # t
    /\ \E a, b \in Nodes :
           /\ a # b
           /\ \A v \in Vertices : ~HasArc(edges, v, a) /\ ~HasArc(edges, v, b)

(***************************************************************************)
(* C13.  Each solver's search loop terminates with a result.  In           *)
(* Alternate, None and the tree BFS of Many every vertex is enqueued at    *)
(* most once; in Few a vertex is pushed only when its recorded distance    *)
(* strictly decreases, so the pushes are bounded; Kahn's loop dequeues     *)
(* each vertex at most once.                                               *)
(***************************************************************************)
NoDuplicate(q) == \A i, j \in DOMAIN q : q[i] = q[j] => i = j

\* Every push of a vertex is at a lower cost than its previous push, which
\* is the distance recorded for it at the time.
PushesDecrease(pushed) ==
    \A i, j \in DOMAIN pushed :
        (i < j /\ pushed[i][2] = pushed[j][2]) => pushed[j][1] < pushed[i][1]

\* A cost is between 0 and the number of vertices.
PushBound == Cardinality(Vertices) * (Cardinality(Vertices) + 1)

C13_BoundedWork ==
    /\ pc \in {"alternate_loop", "alternate"} =>
           NoDuplicate([k \in DOMAIN locals.appended |-> locals.appended[k][1]])
    /\ pc \in {"none_loop", "none"} => NoDuplicate(locals.enqueued)
    /\ pc \in {"few_loop", "few"} =>
           /\ PushesDecrease(locals.pushed)
           /\ Len(locals.pushed) <= PushBound
    /\ pc \in {"kahn_loop", "many_dispatch", "dag_solver", "tree_solver",
               "tree_loop", "many"} =>
           /\ NoDuplicate(locals.topological_order)
           /\ "enqueued" \in DOMAIN locals => NoDuplicate(locals.enqueued)

KahnOrderedAll ==
    {locals.topological_order[i] : i \in DOMAIN locals.topological_order} = Nodes

HasUndirected == \E i \in DOMAIN edges : edges[i][2] = "--"
HasDirected == \E i \in DOMAIN edges : edges[i][2] = "->"
TreeShaped == ~HasDirected /\ Cardinality(Nodes) = Len(edges) + 1

C14_Dispatch ==
    /\ pc = "dag_solver" => (KahnOrderedAll /\ ~HasUndirected)
    /\ pc = "tree_solver" => (~KahnOrderedAll /\ TreeShaped)
    /\ (pc = "many" /\ result = NPHARD) => (~KahnOrderedAll /\ ~TreeShaped)
    /\ (pc = "many" /\ result # NPHARD) => (KahnOrderedAll \/ TreeShaped)
    /\ (pc = "many" /\ HasUndirected /\ HasDirected) => result = NPHARD
    /\ pc \in {"many_dispatch", "dag_solver", "tree_solver", "many"} =>
           (KahnOrderedAll <=> ~HasCycle(edges))

\* An Undirected and a Directed edge that close no directed cycle.
C14_Witness ==
    /\ pc = "many"
    /\ result = NPHARD
    /\ HasUndirected
    /\ HasDirected
    /\ ~HasDirectedCycle(edges)
    /\ s # t
    /\ Reaches(edges, s, t)

(***************************************************************************)
(* C15.  In every state of the BFS of alternate_solution each vertex has   *)
(* been enqueued at most once, and every (v, c) in the queue carries the   *)
(* colour of v: c is True iff v is red.                                    *)
(***************************************************************************)
C15_AlternateQueue ==
    pc \in {"alternate_loop", "alternate"} =>
        /\ NoDuplicate([k \in DOMAIN locals.appended |-> locals.appended[k][1]])
        /\ \A k \in DOMAIN locals.queue :
               \E i \in DOMAIN locals.appended :
                   locals.appended[i] = locals.queue[k]
        /\ \A k \in DOMAIN locals.appended :
               (locals.appended[k][2] = 1) <=> (locals.appended[k][1] \in red)

\* Every vertex was appended, the second and the third with different
\* colours, and a vertex appended before was met again.
C15_Witness ==
    /\ pc = "alternate"
    /\ Len(locals.appended) >= 3
    /\ locals.appended[2][2] # locals.appended[3][2]
    /\ \E i, j \in DOMAIN locals.appended :
           /\ i < j
           /\ HasArc(edges, locals.appended[j][1], locals.appended[i][1])

(***************************************************************************)
(* C16.  When solve_few pops the target t and returns its cost, the cost   *)
(* is distances[t] at that moment (the entry is not stale), although the   *)
(* target is tested before staleness; and the costs popped from the        *)
(* priority queue never decrease.                                          *)
(***************************************************************************)
C16_FewPops ==
    pc \in {"few_loop", "few"} =>
        /\ \A i, j \in DOMAIN locals.popped :
               i < j => locals.popped[i][1] <= locals.popped[j][1]
        /\ (pc = "few" /\ result # IntResult(-1)) =>
               /\ t \in DOMAIN locals.distances
               /\ result = IntResult(locals.distances[t])
               /\ locals.popped[Len(locals.popped)] = <<locals.distances[t], t>>

\* The target is popped third, at a higher cost than the source, and both
\* other vertices have an arc to it.
C16_Witness ==
    /\ pc = "few"
    /\ Len(locals.popped) = 3
    /\ result[2] > locals.popped[1][1]
    /\ HasArc(edges, locals.popped[1][2], t)
    /\ HasArc(edges, locals.popped[2][2], t)

(***************************************************************************)
(* C17.  solve_some returns "true" only when some simple path from s to t  *)
(* (no vertex repeated) passes through a red vertex, in graphs with        *)
(* undirected edges too.                                                   *)
(***************************************************************************)
C17_TrueHasSimplePath ==
    (pc = "some" /\ result = StrResult("true")) =>
        \E p \in Paths(edges, s, t) : RedCount(p, red) >= 1

(***************************************************************************)
(* C18.  Every adjacency builder lists v under u once for each Directed    *)
(* edge u -> v and for each Undirected edge between u and v, written       *)
(* u -- v or v -- u, and nothing else, in edge-list order; an Undirected   *)
(* self-loop u -- u, being entered as two Directed edges, lists u under u  *)
(* twice.  is_purely_undirected is True iff no edge is Directed.           *)
(***************************************************************************)
\* Edge lines in either orientation and in any order.
AllEdgeDescriptors == Vertices \X {"->", "--"} \X Vertices
BuildLists == UNION {[1..n -> AllEdgeDescriptors] : n \in 0..MaxEdges}

\* s, t and red are not read by a builder.
InitBuild ==
    /\ edges \in BuildLists
    /\ s = 1
    /\ t = 1
    /\ red = {}
    /\ pc = "idle"
    /\ result = <<"none", 0>>
    /\ locals = NoLocals

\* The loop over the edge lines, as each of the five builders has it.
RunBuild ==
    /\ pc = "idle"
    /\ pc' = "built"
    /\ locals' = [adj |-> BuildAdj(edges),
                  nodes |-> NodesOf(edges),
                  is_purely_undirected |-> IsPurelyUndirected(edges)]
    /\ UNCHANGED <<edges, s, t, red, result>>

SpecBuild == InitBuild /\ [][RunBuild]_vars

\* The other endpoints of the lines of es that touch u, one per line.
Touches(e, u) == e[1] = u \/ (e[2] = "--" /\ e[3] = u)
ListedOncePerEdge(es, u) ==
    LET lines == SelectSeq(es, LAMBDA e : Touches(e, u))
    IN  [k \in DOMAIN lines |-> IF lines[k][1] = u THEN lines[k][3] ELSE lines[k][1]]

\* The claim as stated: one entry per edge line, a self-loop included.
C18_OncePerEdge ==
    pc = "built" =>
        \A u \in Vertices : locals.adj[u] = ListedOncePerEdge(edges, u)

\* Every line as its arcs: u -> v gives (u, v); u -- v gives (u, v), (v, u).
ArcsOf(es) ==
    [k \in 1..(2 * Len(es)) |->
        LET e == es[(k + 1) \div 2]
        IN  IF k % 2 = 1 THEN <<e[1], e[3]>>
            ELSE IF e[2] = "--" THEN <<e[3], e[1]>> ELSE <<0, 0>>]

ListedPerArc(es, u) ==
    LET arcs == SelectSeq(ArcsOf(es), LAMBDA a : a[1] = u)
    IN  [k \in DOMAIN arcs |-> arcs[k][2]]

C18_AdjacencyPerArc ==
    pc = "built" =>
        /\ \A u \in Vertices :
               /\ locals.adj[u] = ListedPerArc(edges, u)
               /\ (\A i \in DOMAIN edges : edges[i] # <<u, "--", u>>)
                      => locals.adj[u] = ListedOncePerEdge(edges, u)
        /\ locals.is_purely_undirected <=> ~HasDirected

\* An undirected line written from the larger to the smaller name, a
\* directed line, an undirected self-loop, and a vertex with three entries.
C18_Witness ==
    /\ pc = "built"
    /\ \E i \in DOMAIN edges : edges[i][2] = "--" /\ edges[i][1] > edges[i][3]
    /\ HasDirected
    /\ \E i \in DOMAIN edges : edges[i][2] = "--" /\ edges[i][1] = edges[i][3]
    /\ \E u \in Vertices : Len(locals.adj[u]) >= 3

(***************************************************************************)
(* C19.  On an instance for which solve_many_entry returns an integer,     *)
(* solve_few returns -1 iff solve_many_entry returns -1, and otherwise     *)
(* 0 <= solve_few result <= solve_many_entry result; except that when      *)
(* s = t is an endpoint of no edge solve_few returns the cost of s and     *)
(* solve_many_entry returns -1.                                            *)
(***************************************************************************)
\* solve_few and solve_many_entry on the same instance.
RunFewMany ==
    /\ pc = "idle"
    /\ pc' = "few_many"
    /\ result' = IntResult(solve_few(edges, s, t, red))
    /\ \E nodes \in Orders(NodesOf(edges)) :
           locals' = [many |-> solve_many_entry(Len(edges), s, t, red, edges, nodes)]
    /\ UNCHANGED <<edges, s, t, red>>

SpecFewMany == Init /\ [][RunFewMany]_vars

FewManyOrdered ==
    /\ (result[2] = -1) <=> (locals.many[2] = -1)
    /\ locals.many[2] # -1 => (0 <= result[2] /\ result[2] <= locals.many[2])

\* The claim as stated, for every instance with an integer from Many.
C19_FewBelowManyAlways ==
    (pc = "few_many" /\ IsInt(locals.many)) => FewManyOrdered

C19_FewBelowMany ==
    (pc = "few_many" /\ IsInt(locals.many)) =>
        IF s = t /\ s \notin Nodes
        THEN result = IntResult(Cost(s, red)) /\ locals.many = IntResult(-1)
        ELSE FewManyOrdered

\* Few and Many differ: two routes from s to t with different red counts.
C19_Witness ==
    /\ pc = "few_many"
    /\ IsInt(locals.many)
    /\ result[2] >= 0
    /\ result[2] < locals.many[2]
    /\ s # t

(***************************************************************************)
(* C20.  On a DAG in which s is an endpoint of some edge, solve_some       *)
(* returns "true" iff solve_many_entry returns an integer >= 1, and        *)
(* "false" whenever solve_many_entry returns 0 or -1.                      *)
(***************************************************************************)
\* The instances whose graph has no cycle.
InitDag ==
    /\ edges \in {es \in EdgeLists : ~HasCycle(es)}
    /\ s \in Vertices
    /\ t \in Vertices
    /\ red \in SUBSET Vertices
    /\ pc = "idle"
    /\ result = <<"none", 0>>
    /\ locals = NoLocals

\* solve_some and solve_many_entry on the same instance.
RunSomeMany ==
    /\ pc = "idle"
    /\ pc' = "some_many"
    /\ \E order \in Orders(red) :
           result' = StrResult(solve_some(edges, s, t, order))
    /\ \E nodes \in Orders(NodesOf(edges)) :
           locals' = [many |-> solve_many_entry(Len(edges), s, t, red, edges, nodes)]
    /\ UNCHANGED <<edges, s, t, red>>

SpecSomeMany == InitDag /\ [][RunSomeMany]_vars

C20_SomeIffManyPositive ==
    (pc = "some_many" /\ s \in Nodes) =>
        /\ IsInt(locals.many)
        /\ (result = StrResult("true")) <=> (locals.many[2] >= 1)
        /\ locals.many[2] \in {0, -1} => result = StrResult("false")

\* Two routes from s to t, the longer one over two red vertices.
C20_Witness ==
    /\ pc = "some_many"
    /\ s \in Nodes
    /\ s # t
    /\ result = StrResult("true")
    /\ locals.many = IntResult(2)
    /\ Cardinality(Paths(edges, s, t)) >= 2

====
